---- MODULE Spec2Model ----
(***************************************************************************)
(* Model of slicevec (src/src/lib.rs): SliceVec<'a, T>, a vector that      *)
(* keeps its elements in a caller-supplied slice.                          *)
(*                                                                         *)
(* Slices are modelled as functions over 0..n-1 so that indices read as    *)
(* they do in the source.  A method is an operator from the receiver (and  *)
(* its arguments) to a record [self, ret]: the receiver after the call and *)
(* the value returned; a panic is the return value Panic.                  *)
(***************************************************************************)
EXTENDS Integers, FiniteSets, Sequences, TLC

\* ---------------------------------------------------------------- bounds
\* largest backing slice explored
MaxCap == 3
\* element values are 0..MaxVal
MaxVal == 2
\* width of usize on the target
UsizeBits == 16
\* number of element tokens handed out in a run of SpecTokens
MaxTok == 9

\* ------------------------------------------------------- element type T
Values == 0..MaxVal
\* T::default() for the integer element type of the tests
Default == 0

UsizeRange == 2 ^ UsizeBits
UsizeMax == UsizeRange - 1

\* ---------------------------------------------------------- slices [T]
SliceLen(sl) == Cardinality(DOMAIN sl)
Slices(n) == [0 .. (n - 1) -> Values]
\* &sl[..n]
Prefix(sl, n) == [i \in 0 .. (n - 1) |-> sl[i]]
\* sl followed by v
Extend(sl, v) == [i \in 0 .. SliceLen(sl) |-> IF i < SliceLen(sl) THEN sl[i] ELSE v]

\* --------------------------------------------------------- return values
Unit == <<"Unit">>
Ok == <<"Ok">>
Err(v) == <<"Err", v>>
Some(v) == <<"Some", v>>
None == <<"None">>
Value(v) == <<"Value", v>>
Panic == <<"Panic">>
Call(self, ret) == [self |-> self, ret |-> ret]

\* ------------------------------------------------------------- SliceVec
\* struct SliceVec { storage, len }
SliceVec(storage, l) == [storage |-> storage, len |-> l]

\* faulty variant of new: the slice is taken to be full
new_LenFromStorage(storage) == SliceVec(storage, SliceLen(storage))

\* SliceVec::new
new(storage) == SliceVec(storage, 0)

\* SliceVec::capacity
capacity(self) == SliceLen(self.storage)

\* SliceVec::len
len(self) == self.len

\* SliceVec::is_empty
is_empty(self) == self.len = 0

\* the bounds check of self.storage[i]
InBounds(self, i) == i \in DOMAIN self.storage

\* faulty variant of replace: hands back the new value, not the former one
replace_ReturnsNew(self, i, elem) ==
    [self |-> [self EXCEPT !.storage[i] = elem], was |-> elem]

\* core::mem::replace(&mut self.storage[i], elem): the receiver with the slot
\* overwritten, and the slot's former value
replace(self, i, elem) ==
    [self |-> [self EXCEPT !.storage[i] = elem], was |-> self.storage[i]]

\* faulty variant of push: len is incremented before the write
push_IncrementsFirst(self, elem) ==
    IF self.len < capacity(self)
    THEN IF InBounds(self, self.len + 1)
         THEN Call([storage |-> [self.storage EXCEPT ![self.len + 1] = elem],
                    len |-> self.len + 1], Ok)
         ELSE Call([self EXCEPT !.len = self.len + 1], Panic)
    ELSE Call(self, Err(elem))

\* faulty variant of push: a full container swallows the element
push_DropsWhenFull(self, elem) ==
    IF self.len < capacity(self)
    THEN IF InBounds(self, self.len)
         THEN Call([storage |-> [self.storage EXCEPT ![self.len] = elem],
                    len |-> self.len + 1], Ok)
         ELSE Call(self, Panic)
    ELSE Call(self, Ok)

\* faulty variant of push: a full container overwrites its last element
push_OverwritesWhenFull(self, elem) ==
    IF self.len < capacity(self)
    THEN IF InBounds(self, self.len)
         THEN Call([storage |-> [self.storage EXCEPT ![self.len] = elem],
                    len |-> self.len + 1], Ok)
         ELSE Call(self, Panic)
    ELSE IF self.len > 0 /\ InBounds(self, self.len - 1)
         THEN LET r == replace(self, self.len - 1, elem) IN Call(r.self, Err(r.was))
         ELSE Call(self, Err(elem))

\* faulty variant of push: the capacity test admits len == capacity
push_GuardInclusive(self, elem) ==
    IF self.len <= capacity(self)
    THEN IF InBounds(self, self.len)
         THEN Call([storage |-> [self.storage EXCEPT ![self.len] = elem],
                    len |-> self.len + 1], Ok)
         ELSE Call(self, Panic)
    ELSE Call(self, Err(elem))

\* SliceVec::push
push(self, elem) ==
    IF self.len < capacity(self)
    THEN IF InBounds(self, self.len)
         THEN Call([storage |-> [self.storage EXCEPT ![self.len] = elem],
                    len |-> self.len + 1], Ok)
         ELSE Call(self, Panic)
    ELSE Call(self, Err(elem))

\* faulty variant of pop_and_replace: an empty container stores the
\* replacement in its first slot
pop_and_replace_StoresWhenEmpty(self, elem) ==
    IF self.len > 0
    THEN LET s1 == [self EXCEPT !.len = self.len - 1] IN
         IF InBounds(s1, s1.len)
         THEN LET r == replace(s1, s1.len, elem) IN Call(r.self, Some(r.was))
         ELSE Call(s1, Panic)
    ELSE IF InBounds(self, 0)
         THEN Call(replace(self, 0, elem).self, None)
         ELSE Call(self, None)

\* faulty variant of pop_and_replace: the vacated slot gets the default
pop_and_replace_StoresDefault(self, elem) ==
    IF self.len > 0
    THEN LET s1 == [self EXCEPT !.len = self.len - 1] IN
         IF InBounds(s1, s1.len)
         THEN LET r == replace(s1, s1.len, Default) IN Call(r.self, Some(r.was))
         ELSE Call(s1, Panic)
    ELSE Call(self, None)

\* faulty variant of pop_and_replace: len is not decremented
pop_and_replace_NoDecrement(self, elem) ==
    IF self.len > 0
    THEN IF InBounds(self, self.len - 1)
         THEN LET r == replace(self, self.len - 1, elem) IN Call(r.self, Some(r.was))
         ELSE Call(self, Panic)
    ELSE Call(self, None)

\* SliceVec::pop_and_replace
pop_and_replace(self, elem) ==
    IF self.len > 0
    THEN LET s1 == [self EXCEPT !.len = self.len - 1] IN
         IF InBounds(s1, s1.len)
         THEN LET r == replace(s1, s1.len, elem) IN Call(r.self, Some(r.was))
         ELSE Call(s1, Panic)
    ELSE Call(self, None)

\* faulty variant of truncate: no cmp::min
truncate_NoMin(self, n) ==
    Call([self EXCEPT !.len = n], Unit)

\* faulty variant of truncate: the elements cut off are reset to the default
truncate_Clears(self, n) ==
    LET m == IF self.len <= n THEN self.len ELSE n IN
    Call([storage |-> [i \in DOMAIN self.storage |->
                          IF m <= i /\ i < self.len THEN Default
                                                    ELSE self.storage[i]],
          len |-> m], Unit)

\* faulty variant of truncate: one element too many is kept
truncate_KeepsOneMore(self, n) ==
    Call([self EXCEPT !.len = IF self.len <= n + 1 THEN self.len ELSE n + 1], Unit)

\* SliceVec::truncate (cmp::min)
truncate(self, n) ==
    Call([self EXCEPT !.len = IF self.len <= n THEN self.len ELSE n], Unit)

\* SliceVec::as_slice: &self.storage[..self.len], which panics when the range
\* end exceeds the slice
as_slice(self) ==
    IF self.len <= SliceLen(self.storage)
    THEN Prefix(self.storage, self.len)
    ELSE Panic

\* faulty variant of as_mut_slice: the whole backing slice
as_mut_slice_Whole(self) == self.storage

\* faulty variant of as_mut_slice: the window is one slot too long where the
\* backing slice allows it
as_mut_slice_OneTooLong(self) ==
    IF self.len < SliceLen(self.storage)
    THEN Prefix(self.storage, self.len + 1)
    ELSE Prefix(self.storage, SliceLen(self.storage))

\* SliceVec::as_mut_slice: the same window, borrowed mutably
as_mut_slice(self) ==
    IF self.len <= SliceLen(self.storage)
    THEN Prefix(self.storage, self.len)
    ELSE Panic

\* the receiver after the window handed out by as_mut_slice was changed to w
StoreView(self, w) ==
    [self EXCEPT !.storage = [i \in DOMAIN self.storage |->
                                 IF i \in DOMAIN w THEN w[i] ELSE self.storage[i]]]

\* faulty variant of pop: the element is copied out and its slot kept
pop_KeepsSlot(self) ==
    IF self.len > 0
    THEN LET s1 == [self EXCEPT !.len = self.len - 1] IN
         IF InBounds(s1, s1.len)
         THEN Call(s1, Some(s1.storage[s1.len]))
         ELSE Call(s1, Panic)
    ELSE Call(self, None)

\* faulty variant of pop_with: the element is copied out and its slot kept
pop_with_KeepsSlot(self, dflt) ==
    IF self.len > 0
    THEN LET s1 == [self EXCEPT !.len = self.len - 1] IN
         IF InBounds(s1, s1.len)
         THEN Call(s1, Some(s1.storage[s1.len]))
         ELSE Call(s1, Panic)
    ELSE Call(self, None)

\* the body of SliceVec::pop, where dflt is the value this call's
\* T::default() produces
pop_with(self, dflt) ==
    IF self.len > 0
    THEN LET s1 == [self EXCEPT !.len = self.len - 1] IN
         IF InBounds(s1, s1.len)
         THEN LET r == replace(s1, s1.len, dflt) IN Call(r.self, Some(r.was))
         ELSE Call(s1, Panic)
    ELSE Call(self, None)

\* SliceVec::pop for the integer element type
pop(self) == pop_with(self, Default)

\* <[T]>::swap(a, b): both indices are bounds-checked
SwapInBounds(sl, a, b) == a < SliceLen(sl) /\ b < SliceLen(sl)

\* faulty variant of swap: sl[a] = sl[b] only
slice_swap_OneWay(sl, a, b) ==
    [i \in DOMAIN sl |-> IF i = a THEN sl[b] ELSE sl[i]]

\* <[T]>::swap(a, b): the exchange itself
slice_swap(sl, a, b) ==
    [i \in DOMAIN sl |-> IF i = a THEN sl[b] ELSE IF i = b THEN sl[a] ELSE sl[i]]

\* faulty variant of swap_remove: the exchange is left out
swap_remove_NoSwap(self, index, overflow_checks) ==
    LET l == len(self) IN
    IF l = 0 /\ overflow_checks THEN Call(self, Panic)
    ELSE LET last == (l - 1) % UsizeRange
             w == as_mut_slice(self)
         IN IF ~SwapInBounds(w, index, last) THEN Call(self, Panic)
            ELSE LET p == pop(self)
                 IN IF p.ret = None THEN Call(p.self, Panic)
                    ELSE Call(p.self, Value(p.ret[2]))

\* faulty variant of swap_remove: the last element is popped first and then
\* stored over the element at index, whose bounds check comes too late
swap_remove_PopsFirst(self, index, overflow_checks) ==
    LET p == pop(self) IN
    IF p.ret = None THEN Call(self, Panic)
    ELSE IF index = self.len - 1 THEN Call(p.self, Value(p.ret[2]))
    ELSE IF index >= p.self.len THEN Call(p.self, Panic)
    ELSE LET r == replace(p.self, index, p.ret[2]) IN Call(r.self, Value(r.was))

\* the body of SliceVec::swap_remove, where dflt is the value T::default()
\* produces in the pop it calls.  `len - 1` on usize: with overflow checks
\* the subtraction panics at len = 0, without them it wraps.
swap_remove_with(self, index, overflow_checks, dflt) ==
    LET l == len(self) IN
    IF l = 0 /\ overflow_checks THEN Call(self, Panic)
    ELSE LET last == (l - 1) % UsizeRange
             w == as_mut_slice(self)
         IN IF ~SwapInBounds(w, index, last) THEN Call(self, Panic)
            ELSE LET p == pop_with(StoreView(self, slice_swap(w, index, last)), dflt)
                 IN IF p.ret = None THEN Call(p.self, Panic)
                    ELSE Call(p.self, Value(p.ret[2]))

\* SliceVec::swap_remove for the integer element type
swap_remove(self, index, overflow_checks) ==
    swap_remove_with(self, index, overflow_checks, Default)

\* faulty variant of drop: the elements are reset to the default
drop_ClearsElements(self) ==
    Call([self EXCEPT !.storage = [i \in DOMAIN self.storage |->
                                      IF i < self.len THEN Default
                                                      ELSE self.storage[i]]], Unit)

\* dropping a SliceVec: there is no Drop impl, and dropping the fields (a
\* mutable reference and a usize) runs no code
drop(self) == Call(self, Unit)

\* `s[i] = v` through DerefMut: an indexed write into the window
deref_mut_write(self, i, v) ==
    LET w == as_mut_slice(self) IN
    IF self.len <= SliceLen(self.storage) /\ i < SliceLen(w)
    THEN Call(StoreView(self, [w EXCEPT ![i] = v]), Unit)
    ELSE Call(self, Panic)

\* the read-only accessors
Queries == {"len", "is_empty", "capacity", "as_slice"}
query(self, q) ==
    CASE q = "len" -> <<"Usize", len(self)>>
      [] q = "is_empty" -> <<"Bool", is_empty(self)>>
      [] q = "capacity" -> <<"Usize", capacity(self)>>
      [] q = "as_slice" -> <<"Slice", as_slice(self)>>

\* ---------------------------------------------------------------- state
\* sv    the SliceVec (its storage field is the borrowed region itself)
\* pc    "live", "panicked" (a call panicked) or "dropped"
\* op    the last call and its arguments; res: what it returned
\* old   the SliceVec as it was before the last call (for new: the slice
\*       passed in)
\* prev  the call before the last one, and the tag of its result
\* model the abstract bounded stack run side by side: its sequence and what
\*       its last operation returned
\* run   (SpecTokens) the current series of consecutive pushes (arguments
\*       accepted, first argument rejected) and the number of pops that
\*       directly followed it; fresh while the series started at creation
\* next  (SpecTokens) the identity of the next element token; identities
\*       grow with time
\* low   (SpecTokens) for each index i, the value of next when len was last
\*       <= i
VARIABLES sv, pc, op, res, old, prev, model, run, next, low
vars == <<sv, pc, op, res, old, prev, model, run, next, low>>

\* ------------------------------------------- the abstract bounded stack
Abs(m, ret) == [seq |-> m, ret |-> ret]

AbsPush(m, cap, v) ==
    IF Len(m) < cap THEN Abs(Append(m, v), Ok) ELSE Abs(m, Err(v))

AbsPop(m) ==
    IF Len(m) > 0 THEN Abs(SubSeq(m, 1, Len(m) - 1), Some(m[Len(m)]))
                  ELSE Abs(m, None)

AbsTruncate(m, n) ==
    Abs(SubSeq(m, 1, IF Len(m) <= n THEN Len(m) ELSE n), Unit)

AbsSwapRemove(m, i) ==
    IF i < Len(m)
    THEN Abs([j \in 1 .. (Len(m) - 1) |-> IF j = i + 1 THEN m[Len(m)] ELSE m[j]],
             Value(m[i + 1]))
    ELSE Abs(m, Panic)

AbsWrite(m, i, v) ==
    IF i < Len(m) THEN Abs([m EXCEPT ![i + 1] = v], Unit) ELSE Abs(m, Panic)

AbsStep(m, cap, call) ==
    CASE call[1] = "push" -> AbsPush(m, cap, call[2])
      [] call[1] \in {"pop", "pop_and_replace"} -> AbsPop(m)
      [] call[1] = "truncate" -> AbsTruncate(m, call[2])
      [] call[1] = "swap_remove" -> AbsSwapRemove(m, call[2])
      [] call[1] = "index_mut" -> AbsWrite(m, call[2], call[3])
      [] OTHER -> Abs(m, Unit)

\* ------------------------------------------------ the series of pushes
NoRun == [fresh |-> FALSE, pushed |-> <<>>, rejected |-> <<>>, pops |-> 0]

RunStep(r, call, ret) ==
    CASE call[1] = "push" ->
           IF r.pops = 0 /\ r.rejected = <<>>
           THEN IF ret = Ok THEN [r EXCEPT !.pushed = Append(@, call[2])]
                            ELSE [r EXCEPT !.rejected = <<call[2]>>]
           ELSE IF ret = Ok THEN [NoRun EXCEPT !.pushed = <<call[2]>>]
                            ELSE [NoRun EXCEPT !.rejected = <<call[2]>>]
      [] call[1] = "pop" ->
           IF r.pops < Len(r.pushed) THEN [r EXCEPT !.pops = @ + 1] ELSE NoRun
      [] call[1] = "query" -> r
      [] OTHER -> NoRun

\* arguments tried for usize parameters: every position of the largest
\* region, the position just past it, and the largest usize
Indices == (0 .. MaxCap) \cup {UsizeMax}

Init ==
    \E c \in 0 .. MaxCap : \E region \in Slices(c) :
        /\ sv = new(region)
        /\ pc = "live"
        /\ op = <<"new">>
        /\ res = Unit
        /\ old = SliceVec(region, 0)
        /\ prev = [op |-> "none", tag |-> "none"]
        /\ model = Abs(<<>>, Unit)
        /\ run = NoRun
        /\ next = 0
        /\ low = <<>>

\* the effect of a call that returned r
Return(call, r) ==
    /\ sv' = r.self
    /\ res' = r.ret
    /\ op' = call
    /\ old' = sv
    /\ prev' = [op |-> op[1], tag |-> res[1]]
    /\ pc' = IF r.ret = Panic THEN "panicked" ELSE "live"
    /\ model' = AbsStep(model.seq, capacity(sv), call)

Push ==
    /\ pc = "live"
    /\ UNCHANGED <<next, low, run>>
    /\ \E elem \in Values : Return(<<"push", elem>>, push(sv, elem))

PopAndReplace ==
    /\ pc = "live"
    /\ UNCHANGED <<next, low, run>>
    /\ \E elem \in Values :
           Return(<<"pop_and_replace", elem>>, pop_and_replace(sv, elem))

Truncate ==
    /\ pc = "live"
    /\ UNCHANGED <<next, low, run>>
    /\ \E n \in Indices : Return(<<"truncate", n>>, truncate(sv, n))

Pop ==
    /\ pc = "live"
    /\ UNCHANGED <<next, low, run>>
    /\ Return(<<"pop">>, pop(sv))

SwapRemove ==
    /\ pc = "live"
    /\ UNCHANGED <<next, low, run>>
    \* len - 1 can only overflow when len = 0: the build's choice is
    \* enumerated there, and is without effect elsewhere
    /\ \E index \in Indices :
       \E overflow_checks \in (IF len(sv) = 0 THEN BOOLEAN ELSE {TRUE}) :
           Return(<<"swap_remove", index>>, swap_remove(sv, index, overflow_checks))

ViewWrite ==
    /\ pc = "live"
    /\ UNCHANGED <<next, low, run>>
    /\ \E i \in Indices : \E v \in Values :
           Return(<<"index_mut", i, v>>, deref_mut_write(sv, i, v))

\* the read-only accessors are called one after the other and what each
\* returned is recorded
Query ==
    /\ pc = "live"
    /\ UNCHANGED <<next, low, run>>
    /\ Return(<<"query">>, Call(sv, <<"Readings", [q \in Queries |-> query(sv, q)]>>))

\* the SliceVec goes out of scope: the borrow ends, nothing is written
Drop ==
    /\ pc = "live"
    /\ UNCHANGED <<next, low, run>>
    /\ pc' = "dropped"
    /\ op' = <<"drop">>
    /\ res' = Unit
    /\ old' = sv
    /\ prev' = [op |-> op[1], tag |-> res[1]]
    /\ sv' = drop(sv).self
    /\ model' = Abs(model.seq, Unit)

Next ==
    \/ Push
    \/ PopAndReplace
    \/ Truncate
    \/ Pop
    \/ SwapRemove
    \/ ViewWrite
    \/ Query
    \/ Drop

Spec == Init /\ [][Next]_vars

\* ------------------------------------------------------------ tokens
\* The same methods over an element type whose values are distinguishable
\* tokens <<origin, identity>>: every value that enters the container (the
\* region's initial contents, a pushed value, a replacement, a value written
\* through the view, a default) is a token of its own.
Tok(origin) == <<origin, next>>

\* arguments tried for usize parameters in SpecTokens
TokIndices == 0 .. MaxCap

\* time passes by n tokens; low follows len and run follows the call
Tick(n) ==
    /\ next' = next + n
    /\ run' = RunStep(run, op', res')
    /\ low' = [i \in DOMAIN low |-> IF sv'.len <= i THEN next + n ELSE low[i]]

TokInit ==
    \E c \in 0 .. MaxCap :
        LET region == [i \in 0 .. (c - 1) |-> <<"init", i>>] IN
        /\ sv = new(region)
        /\ pc = "live"
        /\ op = <<"new">>
        /\ res = Unit
        /\ old = SliceVec(region, 0)
        /\ prev = [op |-> "none", tag |-> "none"]
        /\ model = Abs(<<>>, Unit)
        /\ run = [NoRun EXCEPT !.fresh = TRUE]
        /\ next = c
        /\ low = [i \in 0 .. (c - 1) |-> c]

TokPush ==
    /\ pc = "live" /\ next < MaxTok
    /\ Return(<<"push", Tok("push")>>, push(sv, Tok("push")))
    /\ Tick(1)

TokPopAndReplace ==
    /\ pc = "live" /\ next < MaxTok
    /\ Return(<<"pop_and_replace", Tok("replacement")>>,
              pop_and_replace(sv, Tok("replacement")))
    /\ Tick(1)

TokTruncate ==
    /\ pc = "live"
    /\ \E n \in TokIndices : Return(<<"truncate", n>>, truncate(sv, n))
    /\ Tick(0)

TokPop ==
    /\ pc = "live" /\ next < MaxTok
    /\ Return(<<"pop">>, pop_with(sv, Tok("default")))
    /\ Tick(1)

TokSwapRemove ==
    /\ pc = "live" /\ next < MaxTok
    /\ \E index \in TokIndices : \E overflow_checks \in BOOLEAN :
           Return(<<"swap_remove", index>>,
                  swap_remove_with(sv, index, overflow_checks, Tok("default")))
    /\ Tick(1)

TokViewWrite ==
    /\ pc = "live" /\ next < MaxTok
    /\ \E i \in TokIndices :
           Return(<<"index_mut", i, Tok("write")>>,
                  deref_mut_write(sv, i, Tok("write")))
    /\ Tick(1)

TokNext ==
    \/ TokPush
    \/ TokPopAndReplace
    \/ TokTruncate
    \/ TokPop
    \/ TokSwapRemove
    \/ TokViewWrite

SpecTokens == TokInit /\ [][TokNext]_vars

TypeOK ==
    /\ sv.len \in 0 .. MaxCap
    /\ pc \in {"live", "panicked", "dropped"}

\* ---------------------------------------------------------------- claims
\* the slots of the region other than k are as they were before the last call
SameExcept(k) ==
    /\ DOMAIN sv.storage = DOMAIN old.storage
    /\ \A i \in DOMAIN old.storage : i # k => sv.storage[i] = old.storage[i]

\* C1: in every state 0 <= len <= capacity, and the view returned by as_slice
\* has exactly len elements, which are storage[0..len).
C1_LenWithinCapacity ==
    /\ 0 <= sv.len
    /\ sv.len <= capacity(sv)
    /\ SliceLen(as_slice(sv)) = sv.len
    /\ \A i \in 0 .. (sv.len - 1) : as_slice(sv)[i] = sv.storage[i]

\* a failed push on a full container of two or more elements, after a removal
C1_Witness ==
    /\ op[1] = "push" /\ res[1] = "Err"
    /\ prev.op \in {"swap_remove", "truncate", "pop", "pop_and_replace"}
    /\ sv.len = capacity(sv) /\ sv.len >= 2

\* C2: push(v) with len < capacity returns Ok, writes v into storage[old len],
\* increments len by one, leaves every other slot unchanged, and the view is
\* the old view with v appended.
C2_PushAppends ==
    (op[1] = "push" /\ old.len < capacity(old)) =>
        /\ res = Ok
        /\ sv.len = old.len + 1
        /\ old.len \in DOMAIN sv.storage
        /\ sv.storage[old.len] = op[2]
        /\ SameExcept(old.len)
        /\ as_slice(sv) = Extend(as_slice(old), op[2])

\* a push onto a non-empty container that overwrites a different residual value
\* and leaves room behind it
C2_Witness ==
    /\ op[1] = "push" /\ res = Ok
    /\ old.len >= 1 /\ old.len + 1 < capacity(old)
    /\ old.storage[old.len] # op[2]

\* C3: push(v) on a full container (capacity 0 included) returns Err(v) and
\* leaves len and every slot unchanged.
C3_PushFull ==
    (op[1] = "push" /\ old.len = capacity(old)) =>
        /\ res = Err(op[2])
        /\ sv.len = old.len
        /\ sv.storage = old.storage

\* a rejected push of a value that is neither the default nor in the region
C3_Witness ==
    /\ op[1] = "push" /\ old.len = capacity(old) /\ capacity(old) >= 1
    /\ op[2] # Default
    /\ \A i \in DOMAIN old.storage : old.storage[i] # op[2]
    /\ res = Err(op[2])

\* C4: pop() with len > 0 decrements len by one, returns the former last
\* element of the view, writes the default into the vacated slot and leaves
\* every other slot unchanged.
C4_Pop ==
    (op[1] = "pop" /\ old.len > 0) =>
        /\ sv.len = old.len - 1
        /\ res = Some(as_slice(old)[old.len - 1])
        /\ res = Some(old.storage[old.len - 1])
        /\ sv.storage[old.len - 1] = Default
        /\ SameExcept(old.len - 1)

\* a pop of a non-default last element from a container of two or more
C4_Witness ==
    /\ op[1] = "pop" /\ old.len >= 2
    /\ old.storage[old.len - 1] # Default
    /\ res[1] = "Some"

\* C5: on an empty container pop() and pop_and_replace(v) return None and
\* leave len at 0 and every slot unchanged; v is not written into the region.
C5_PopEmpty ==
    (op[1] \in {"pop", "pop_and_replace"} /\ old.len = 0) =>
        /\ res = None
        /\ sv.len = 0
        /\ sv.storage = old.storage

\* pop_and_replace on an empty container with a replacement that occurs
\* nowhere in the region, right after a pop on the empty container
C5_Witness ==
    /\ op[1] = "pop_and_replace" /\ old.len = 0 /\ capacity(old) >= 1
    /\ \A i \in DOMAIN old.storage : old.storage[i] # op[2]
    /\ prev.op = "pop" /\ prev.tag = "None"
    /\ res = None

\* C6: pop_and_replace(v) with len > 0 decrements len by one, returns the
\* former last element of the view, leaves v in the vacated slot and leaves
\* every other slot unchanged.
C6_PopAndReplace ==
    (op[1] = "pop_and_replace" /\ old.len > 0) =>
        /\ sv.len = old.len - 1
        /\ res = Some(as_slice(old)[old.len - 1])
        /\ sv.storage[sv.len] = op[2]
        /\ SameExcept(old.len - 1)

\* a pop_and_replace whose replacement is neither the default nor the element
\* removed
C6_Witness ==
    /\ op[1] = "pop_and_replace" /\ old.len >= 2
    /\ op[2] # Default /\ op[2] # old.storage[old.len - 1]
    /\ res[1] = "Some"

\* C7: truncate(n) sets len to min(len, n) and changes no slot of the region:
\* for n < len the first n elements of the view are unchanged and the elements
\* at [n, old len) stay where they were; for n >= len nothing changes.
C7_Truncate ==
    op[1] = "truncate" =>
        /\ sv.len = (IF old.len <= op[2] THEN old.len ELSE op[2])
        /\ sv.storage = old.storage
        /\ op[2] < old.len =>
              /\ as_slice(sv) = Prefix(as_slice(old), op[2])
              /\ \A i \in op[2] .. (old.len - 1) : sv.storage[i] = old.storage[i]
        /\ op[2] >= old.len => sv = old

\* a truncate that cuts off two non-default elements and keeps one
C7_Witness ==
    /\ op[1] = "truncate" /\ op[2] = 1 /\ old.len = 3
    /\ old.storage[1] # Default /\ old.storage[2] # Default
    /\ sv.len = 1

\* C8: swap_remove(i) with i < len returns the element formerly at i,
\* decrements len by one, and the view is the old view with the old last
\* element at position i and every other position below the new len unchanged.
C8_SwapRemove ==
    (op[1] = "swap_remove" /\ op[2] < old.len) =>
        /\ res = Value(old.storage[op[2]])
        /\ sv.len = old.len - 1
        /\ SliceLen(as_slice(sv)) = old.len - 1
        /\ \A j \in 0 .. (old.len - 2) :
              as_slice(sv)[j] = (IF j = op[2] THEN old.storage[old.len - 1]
                                             ELSE old.storage[j])

\* swap_remove(0) on a view [a, b, c] of three different values
C8_Witness ==
    /\ op = <<"swap_remove", 0>> /\ old.len = 3
    /\ old.storage[0] # old.storage[1]
    /\ old.storage[1] # old.storage[2]
    /\ old.storage[0] # old.storage[2]
    /\ res[1] = "Value"

\* C9: swap_remove(i) with i >= len panics, whether i is inside the region but
\* outside the view or the container is empty.
C9_SwapRemoveOutOfBounds ==
    (op[1] = "swap_remove" /\ op[2] >= old.len) => res = Panic

\* swap_remove with an index in [len, capacity) on a non-empty container
C9_Witness ==
    /\ op[1] = "swap_remove" /\ old.len >= 1
    /\ op[2] >= old.len /\ op[2] < capacity(old)
    /\ pc = "panicked"

\* C10: a pop that immediately follows a successful push of v returns Some(v)
\* and restores len and the view to what they were before the push.
C10_PushThenPop ==
    [][(op[1] = "push" /\ res = Ok /\ op'[1] = "pop") =>
          /\ res' = Some(op[2])
          /\ sv'.len = old.len
          /\ as_slice(sv') = as_slice(old)]_vars

\* a pop right after a successful push onto an empty container that returns a
\* non-default element
C10_Witness ==
    /\ op[1] = "pop" /\ prev.op = "push" /\ prev.tag = "Ok"
    /\ sv.len = 0 /\ res[1] = "Some" /\ res[2] # Default

\* C12: creating a container over any region gives len 0, is_empty, an empty
\* view, capacity equal to the region's size and an unmodified region; no
\* later call changes the capacity, and capacity() keeps returning it.
C12_Creation ==
    /\ op[1] = "new" =>
          /\ sv.len = 0
          /\ is_empty(sv)
          /\ SliceLen(as_slice(sv)) = 0
          /\ capacity(sv) = SliceLen(old.storage)
          /\ sv.storage = old.storage
    /\ op[1] # "new" => capacity(sv) = capacity(old)
    /\ op[1] = "query" => res[2]["capacity"] = <<"Usize", capacity(old)>>

\* a container just created over a region of two or more non-default values
C12_Witness ==
    /\ op[1] = "new" /\ SliceLen(old.storage) >= 2
    /\ \A i \in DOMAIN old.storage : old.storage[i] # Default
    /\ sv.len = 0

\* C13 as stated: the element returned by swap_remove(index) is the one that
\* was at position len-1 before the call.
C13_ReturnsFormerLast ==
    (op[1] = "swap_remove" /\ res[1] = "Value") =>
        res[2] = old.storage[old.len - 1]

\* C13 amended: the element returned by swap_remove(index) is the one that
\* was at position index before the call; the element that was at len-1 is
\* the one relocated to index, and the slot at len-1 is left with the default.
C13_ReturnsElementAtIndex ==
    (op[1] = "swap_remove" /\ res[1] = "Value") =>
        /\ op[2] < old.len
        /\ res[2] = old.storage[op[2]]
        /\ op[2] < old.len - 1 => sv.storage[op[2]] = old.storage[old.len - 1]
        /\ sv.storage[old.len - 1] = Default

\* a swap_remove below the last position whose element differs from the last
C13_Witness ==
    /\ op[1] = "swap_remove" /\ res[1] = "Value"
    /\ op[2] < old.len - 1
    /\ old.storage[op[2]] # old.storage[old.len - 1]

\* C15: after every call each residual slot (index in [len, capacity)) was
\* residual before and is unchanged, or was cut off by truncate and is
\* unchanged, or is the slot just vacated and holds the default (pop,
\* swap_remove) or the replacement (pop_and_replace); at creation the region
\* is as passed in; no call writes at an index > len, and a failed push
\* writes nowhere.
C15_Residual ==
    /\ op[1] = "new" => sv.storage = old.storage
    /\ op[1] # "new" =>
          /\ DOMAIN sv.storage = DOMAIN old.storage
          /\ \A i \in DOMAIN sv.storage :
                /\ i > old.len => sv.storage[i] = old.storage[i]
                /\ i >= sv.len =>
                      \/ /\ sv.storage[i] = old.storage[i]
                         /\ (i >= old.len \/ op[1] = "truncate")
                      \/ /\ i = old.len - 1
                         /\ op[1] \in {"pop", "swap_remove"}
                         /\ sv.storage[i] = Default
                      \/ /\ i = old.len - 1
                         /\ op[1] = "pop_and_replace"
                         /\ sv.storage[i] = op[2]
    /\ (op[1] = "push" /\ res[1] = "Err") => sv.storage = old.storage

\* a truncate after a pop: one residual slot holds the element cut off, the
\* next the default left by the pop
C15_Witness ==
    /\ op = <<"truncate", 1>> /\ old.len = 2 /\ capacity(sv) = 3
    /\ prev.op = "pop" /\ prev.tag = "Some"
    /\ sv.storage[1] # Default /\ sv.storage[2] = Default

\* C16: dropping the container writes nothing: the region is as the container
\* last held it, positions [0, len) equal the final view and the residual
\* slots are not cleared.
C16_Drop ==
    op[1] = "drop" =>
        /\ sv.storage = old.storage
        /\ sv.len = old.len
        /\ \A i \in 0 .. (old.len - 1) : sv.storage[i] = as_slice(old)[i]

\* a drop of a container holding a non-default element in front of a
\* non-default residual slot, after some call
C16_Witness ==
    /\ pc = "dropped" /\ old.len >= 1 /\ old.len < capacity(old)
    /\ old.storage[0] # Default /\ old.storage[old.len] # Default
    /\ prev.op \notin {"new", "none"}

\* C17: a write through the mutable view succeeds exactly for indices below
\* len, changes that one slot only, and changes neither len nor a residual
\* slot; the read-only accessors change nothing.
C17_Views ==
    /\ op[1] = "index_mut" =>
          /\ sv.len = old.len
          /\ \A i \in DOMAIN old.storage : i >= old.len => sv.storage[i] = old.storage[i]
          /\ op[2] < old.len =>
                res = Unit /\ sv.storage[op[2]] = op[3] /\ SameExcept(op[2])
          /\ op[2] >= old.len => res = Panic /\ sv = old
    /\ op[1] = "query" => sv = old

\* a write through the view that changes the last element of the view, next
\* to a residual slot holding a different value
C17_Witness ==
    /\ op[1] = "index_mut" /\ res = Unit
    /\ op[2] = old.len - 1 /\ old.len < capacity(old)
    /\ old.storage[op[2]] # op[3] /\ old.storage[old.len] # op[3]

\* C20: a swap_remove that panics has changed neither len nor any slot.
C20_SwapRemoveFailsClean ==
    (op[1] = "swap_remove" /\ res = Panic) => sv = old

\* a panicking swap_remove on a container of two or more elements
C20_Witness ==
    /\ op[1] = "swap_remove" /\ res = Panic
    /\ old.len >= 2 /\ op[2] >= old.len

\* C11 (SpecTokens): pushing capacity + 1 values onto a freshly created
\* container: each of the first capacity pushes returns Ok and the k-th leaves
\* len = k and the view equal to the first k values pushed; the next push
\* returns Err with its argument and leaves len = capacity and the view
\* unchanged.
C11_FillThenReject ==
    (run.fresh /\ op[1] = "push") =>
        LET n == Len(run.pushed) + Len(run.rejected) IN
        /\ sv.len = Len(run.pushed)
        /\ SliceLen(as_slice(sv)) = Len(run.pushed)
        /\ \A i \in 0 .. (sv.len - 1) : as_slice(sv)[i] = run.pushed[i + 1]
        /\ n <= capacity(sv) => run.rejected = <<>> /\ res = Ok
        /\ n > capacity(sv) =>
              /\ n = capacity(sv) + 1
              /\ Len(run.pushed) = capacity(sv)
              /\ res = Err(op[2])
              /\ sv = old

\* the rejected push after three accepted ones
C11_Witness ==
    /\ run.fresh /\ op[1] = "push" /\ res[1] = "Err"
    /\ Len(run.pushed) = 3 /\ capacity(sv) = 3
    /\ op[2] # run.pushed[3]

\* C18 (SpecTokens): after every call the view equals the sequence of the
\* abstract bounded stack and the call returned what the abstract operation
\* returns;
\* pops that directly follow a series of accepted pushes return the values
\* pushed, last first.
C18_Refinement ==
    /\ SliceLen(as_slice(sv)) = Len(model.seq)
    /\ \A i \in 0 .. (sv.len - 1) : as_slice(sv)[i] = model.seq[i + 1]
    /\ op[1] \in {"push", "pop", "pop_and_replace", "truncate", "swap_remove",
                   "index_mut"} => res = model.ret
    /\ (op[1] = "pop" /\ run.pops >= 1) =>
          res = Some(run.pushed[Len(run.pushed) - run.pops + 1])

\* the last of as many pops as there were pushes, in a series of pushes that
\* did not start at creation
C18_Witness ==
    /\ op[1] = "pop" /\ run.pops = Len(run.pushed) /\ run.pops >= 2
    /\ ~run.fresh
    /\ res = Some(run.pushed[1])

\* C14 (SpecTokens): no token ever occupies two slots of the region, and
\* right after pop, pop_and_replace or swap_remove returned a token, that
\* token occupies no slot of the region.
C14_NoDuplication ==
    /\ \A i, j \in DOMAIN sv.storage : i # j => sv.storage[i] # sv.storage[j]
    /\ (op[1] \in {"pop", "pop_and_replace", "swap_remove"}
          /\ res[1] \in {"Some", "Value"}) =>
          \A i \in DOMAIN sv.storage : sv.storage[i] # res[2]

\* a swap_remove below the last position of a view of three tokens
C14_Witness ==
    /\ op[1] = "swap_remove" /\ res[1] = "Value"
    /\ old.len = 3 /\ op[2] < 2
    /\ res[2][1] = "push"

\* C19 (SpecTokens): len grows only in a successful push, by exactly one, and
\* the slot newly exposed holds the value pushed; and every element at an
\* index i of the view is a token that a push or a write through the view
\* brought in after len last was <= i.
C19_LenGrowsByPushOnly ==
    /\ sv.len > old.len =>
          /\ op[1] = "push" /\ res = Ok
          /\ sv.len = old.len + 1
          /\ sv.storage[old.len] = op[2]
    /\ op[1] # "push" => sv.len <= old.len
    /\ \A i \in 0 .. (sv.len - 1) :
          /\ sv.storage[i][1] \in {"push", "write"}
          /\ sv.storage[i][2] >= low[i]

\* a push that covers a residual slot left behind by an earlier removal,
\* onto a view that a swap_remove has reordered
C19_Witness ==
    /\ op[1] = "push" /\ res = Ok
    /\ old.storage[old.len][1] \in {"push", "write", "default", "replacement"}
    /\ old.len >= 1
    /\ sv.storage[0][2] > sv.storage[old.len - 1][2] \/ prev.op = "swap_remove"

====
